---- MODULE Spec2Model ----
(***************************************************************************)
(* Model of sigq::Queue (src/src/lib.rs): a VecDeque guarded by one Mutex  *)
(* and one Condvar, with push, blocking pop, was_empty, and the PopFuture  *)
(* returned by apop, whose poll spawns a helper thread that waits on the   *)
(* Condvar and then calls the task's waker.                                *)
(*                                                                         *)
(* A thread's step is: acquiring the Mutex (a call blocks until it can),   *)
(* the statements it then runs up to the point where it gives the Mutex    *)
(* up (by dropping the guard, or by Condvar::wait), and each statement it  *)
(* runs without the Mutex.  poll keeps the Mutex across thread::spawn, so  *)
(* that is two steps.                                                      *)
(***************************************************************************)
EXTENDS Naturals, Sequences, FiniteSets

\* ---------------------------------------------------------------- bounds
NumPushers == 2        \* threads that call push
MaxPush == 2           \* push calls in a run; the n-th push_back appends n
NumPoppers == 2        \* threads that call pop
MaxPop == 2            \* pop calls in a run
NumHandles == 1        \* PopFutures that apop may create
MaxExtraPoll == 1      \* polls of a pending handle not caused by its waker
MaxSpurious == 1       \* spurious returns of Condvar::wait
MaxProbe == 1          \* was_empty calls in a run

Pushers == 1..NumPushers
Poppers == 1..NumPoppers
Handles == 1..NumHandles
\* A handle has at most one live helper per poll that found the buffer empty
\* and was not answered by a wake-up, so this many thread slots are enough.
Helpers == 1..(NumHandles + MaxExtraPoll)

Free == <<>>
PushId(p) == <<"push", p>>
PopId(c) == <<"pop", c>>
PollId(h) == <<"poll", h>>
HelperId(k) == <<"helper", k>>
ProbeId == <<"probe", 1>>

VARIABLES
  buffer,      \* the VecDeque behind self.q
  lock,        \* holder of the Mutex self.q, or Free
  pushPc,      \* pusher: "idle", "push_back" (holds the Mutex), "notify"
  pushItem,    \* pusher: the argument item
  popPc,       \* popper: "idle", "pop_front" (holds the Mutex), "waiting",
               \*         "woken" (wait is re-acquiring the Mutex), "done"
  popNode,     \* popper: the value pop returned
  hPc,         \* handle: "none", "created", "pop_front" and "drop" (poll
               \*         holds the Mutex), "pending", "done", "dropped"
  hNode,       \* handle: the value of Poll::Ready
  woken,       \* handle: its waker was called since its last poll began
  helpPc,      \* helper thread: "none", "lock", "check" (holds the Mutex),
               \*         "waiting", "woken", "wake"
  helpOwner,   \* helper thread: the handle whose waker it captured
  probePc,     \* was_empty caller: "idle", "is_empty" (holds the Mutex)
  probeRes,    \* the value was_empty returned
  probeAt,     \* history: <<Len(pushed), Len(popped)>> when it was computed
  pushLeft, popLeft, apopLeft, extraPollLeft, spuriousLeft, probeLeft,
               \* calls the environment may still make
  pushed,      \* history: items in the order push_back appended them
  popped       \* history: <<consumer, item>> in the order pop_front removed them

vars == <<buffer, lock, pushPc, pushItem, popPc, popNode, hPc, hNode, woken,
          helpPc, helpOwner, probePc, probeRes, probeAt,
          pushLeft, popLeft, apopLeft, extraPollLeft, spuriousLeft,
          probeLeft, pushed, popped>>

pushVars == <<pushPc, pushItem, pushLeft>>
popVars == <<popPc, popNode, popLeft>>
pollVars == <<hPc, hNode, woken, apopLeft, extraPollLeft>>
helpVars == <<helpPc, helpOwner>>
probeVars == <<probePc, probeRes, probeAt, probeLeft>>
histVars == <<pushed, popped>>

\* ------------------------------------------------------- VecDeque, Condvar
\* a slip: push_front in place of push_back
push_front(q, item) == <<item>> \o q
push_back(q, item) == Append(q, item)
\* a slip: the negation of is_empty
is_not_empty(q) == Len(q) > 0
is_empty(q) == Len(q) = 0
\* pop_front is None on an empty deque; else Some(node) and the deque left
pop_front_is_some(q) == Len(q) > 0
\* a slip: the node is taken from the back of the deque
pop_back_node(q) == q[Len(q)]
pop_front_node(q) == Head(q)
\* a slip: the node is read and left in the deque
pop_front_keep(q) == q
pop_front_rest(q) == Tail(q)

\* The threads blocked inside Condvar::wait on self.signal
Waiters ==
  {PopId(c) : c \in {x \in Poppers : popPc[x] = "waiting"}}
    \cup {HelperId(k) : k \in {x \in Helpers : helpPc[x] = "waiting"}}

\* a slip: push forgets the notification
notify_none(ws) == {{}}
\* a slip: notify_all in place of notify_one
notify_all(ws) == {ws}
\* notify_one: the sets of waiters that one call may make runnable
notify_one(ws) == IF ws = {} THEN {{}} ELSE {{w} : w \in ws}

\* The waiters in ws leave the Condvar; each has yet to re-acquire the Mutex
Unblock(ws) ==
  /\ popPc' = [c \in Poppers |->
                 IF PopId(c) \in ws THEN "woken" ELSE popPc[c]]
  /\ helpPc' = [k \in Helpers |->
                 IF HelperId(k) \in ws THEN "woken" ELSE helpPc[k]]

\* --------------------------------------------------------------- Init
\* Queue::new, and the calls the environment will make
InitWith(np, nc, nh, ne, ns, nb) ==
  /\ buffer = <<>>
  /\ lock = Free
  /\ pushPc = [p \in Pushers |-> "idle"]
  /\ pushItem = [p \in Pushers |-> 0]
  /\ popPc = [c \in Poppers |-> "idle"]
  /\ popNode = [c \in Poppers |-> 0]
  /\ hPc = [h \in Handles |-> "none"]
  /\ hNode = [h \in Handles |-> 0]
  /\ woken = [h \in Handles |-> FALSE]
  /\ helpPc = [k \in Helpers |-> "none"]
  /\ helpOwner = [k \in Helpers |-> 0]
  /\ probePc = "idle"
  /\ probeRes = FALSE
  /\ probeAt = <<0, 0>>
  /\ pushLeft = np
  /\ popLeft = nc
  /\ apopLeft = nh
  /\ extraPollLeft = ne
  /\ spuriousLeft = ns
  /\ probeLeft = nb
  /\ pushed = <<>>
  /\ popped = <<>>

Init ==
  InitWith(MaxPush, MaxPop, NumHandles, MaxExtraPoll, MaxSpurious, MaxProbe)

\* ------------------------------------------------------------ Queue::push
\* let mut q = self.q.lock().unwrap()
Push_lock(p) ==
  /\ pushPc[p] = "idle"
  /\ pushLeft > 0
  /\ lock = Free
  /\ lock' = PushId(p)
  /\ pushLeft' = pushLeft - 1
  /\ pushItem' = [pushItem EXCEPT ![p] = Len(pushed) + 1]
  /\ pushPc' = [pushPc EXCEPT ![p] = "push_back"]
  /\ UNCHANGED <<buffer, popVars, pollVars, helpVars, probeVars,
                 spuriousLeft, histVars>>

\* q.push_back(item); drop(q)
Push_push_back(p) ==
  /\ pushPc[p] = "push_back"
  /\ buffer' = push_back(buffer, pushItem[p])
  /\ pushed' = Append(pushed, pushItem[p])
  /\ lock' = Free
  /\ pushPc' = [pushPc EXCEPT ![p] = "notify"]
  /\ UNCHANGED <<pushItem, pushLeft, popVars, pollVars, helpVars,
                 probeVars, spuriousLeft, popped>>

\* self.signal.notify_one()
Push_notify_one(p) ==
  /\ pushPc[p] = "notify"
  /\ \E ws \in notify_one(Waiters) : Unblock(ws)
  /\ pushPc' = [pushPc EXCEPT ![p] = "idle"]
  /\ UNCHANGED <<buffer, lock, pushItem, pushLeft, popNode, popLeft,
                 pollVars, helpOwner, probeVars, spuriousLeft, histVars>>

\* ------------------------------------------------------------- Queue::pop
\* let mut q = self.q.lock().unwrap()
Pop_lock(c) ==
  /\ popPc[c] \in {"idle", "done"}
  /\ popLeft > 0
  /\ lock = Free
  /\ lock' = PopId(c)
  /\ popLeft' = popLeft - 1
  /\ popNode' = [popNode EXCEPT ![c] = 0]
  /\ popPc' = [popPc EXCEPT ![c] = "pop_front"]
  /\ UNCHANGED <<buffer, pushVars, pollVars, helpVars, probeVars,
                 spuriousLeft, histVars>>

\* a slip: pop gives up on an empty buffer instead of waiting
Pop_pop_front_try(c) ==
  /\ popPc[c] = "pop_front"
  /\ IF pop_front_is_some(buffer)
       THEN /\ popNode' = [popNode EXCEPT ![c] = pop_front_node(buffer)]
            /\ buffer' = pop_front_rest(buffer)
            /\ popped' = Append(popped, <<PopId(c), pop_front_node(buffer)>>)
       ELSE UNCHANGED <<buffer, popNode, popped>>
  /\ popPc' = [popPc EXCEPT ![c] = "done"]
  /\ lock' = Free
  /\ UNCHANGED <<popLeft, pushVars, pollVars, helpVars, probeVars,
                 spuriousLeft, pushed>>

\* match q.pop_front(): Some(node) => break node, then drop(q); node
\*                      None => q = self.signal.wait(q), which releases
\*                      the Mutex and blocks in one step
Pop_pop_front(c) ==
  /\ popPc[c] = "pop_front"
  /\ IF pop_front_is_some(buffer)
       THEN /\ popNode' = [popNode EXCEPT ![c] = pop_front_node(buffer)]
            /\ buffer' = pop_front_rest(buffer)
            /\ popped' = Append(popped, <<PopId(c), pop_front_node(buffer)>>)
            /\ popPc' = [popPc EXCEPT ![c] = "done"]
       ELSE /\ popPc' = [popPc EXCEPT ![c] = "waiting"]
            /\ UNCHANGED <<buffer, popNode, popped>>
  /\ lock' = Free
  /\ UNCHANGED <<popLeft, pushVars, pollVars, helpVars, probeVars,
                 spuriousLeft, pushed>>

\* a slip: an `if` in place of the loop, so that a woken thread takes
\* whatever pop_front gives it and returns
Pop_wait_return_once(c) ==
  /\ popPc[c] = "woken"
  /\ lock = Free
  /\ IF pop_front_is_some(buffer)
       THEN /\ popNode' = [popNode EXCEPT ![c] = pop_front_node(buffer)]
            /\ buffer' = pop_front_rest(buffer)
            /\ popped' = Append(popped, <<PopId(c), pop_front_node(buffer)>>)
       ELSE UNCHANGED <<buffer, popNode, popped>>
  /\ popPc' = [popPc EXCEPT ![c] = "done"]
  /\ UNCHANGED <<lock, popLeft, pushVars, pollVars, helpVars, probeVars,
                 spuriousLeft, pushed>>

\* wait returns with the Mutex re-acquired; the loop runs again
Pop_wait_return(c) ==
  /\ popPc[c] = "woken"
  /\ lock = Free
  /\ lock' = PopId(c)
  /\ popPc' = [popPc EXCEPT ![c] = "pop_front"]
  /\ UNCHANGED <<buffer, popNode, popLeft, pushVars, pollVars, helpVars,
                 probeVars, spuriousLeft, histVars>>

\* -------------------------------------------------------- Queue::was_empty
\* let q = self.q.lock().unwrap()
Probe_lock ==
  /\ probePc = "idle"
  /\ probeLeft > 0
  /\ lock = Free
  /\ lock' = ProbeId
  /\ probeLeft' = probeLeft - 1
  /\ probePc' = "is_empty"
  /\ UNCHANGED <<buffer, probeRes, probeAt, pushVars, popVars, pollVars,
                 helpVars, spuriousLeft, histVars>>

\* q.is_empty() is the value returned; the guard q is dropped on return
Probe_is_empty ==
  /\ probePc = "is_empty"
  /\ probeRes' = is_empty(buffer)
  /\ probeAt' = <<Len(pushed), Len(popped)>>
  /\ lock' = Free
  /\ probePc' = "idle"
  /\ UNCHANGED <<buffer, probeLeft, pushVars, popVars, pollVars, helpVars,
                 spuriousLeft, histVars>>

\* ---------------------------------------------- Queue::apop, PopFuture::new
\* The helper thread slot that thread::spawn uses
FreeSlot == CHOOSE k \in Helpers :
              /\ helpPc[k] = "none"
              /\ \A j \in Helpers : helpPc[j] = "none" => k <= j

\* a slip: apop starts the helper thread at once, before any poll
Apop_eager(h) ==
  /\ hPc[h] = "none"
  /\ apopLeft > 0
  /\ apopLeft' = apopLeft - 1
  /\ hPc' = [hPc EXCEPT ![h] = "created"]
  /\ \E k \in Helpers : helpPc[k] = "none"
  /\ helpPc' = [helpPc EXCEPT ![FreeSlot] = "lock"]
  /\ helpOwner' = [helpOwner EXCEPT ![FreeSlot] = h]
  /\ UNCHANGED <<buffer, lock, hNode, woken, extraPollLeft, pushVars,
                 popVars, probeVars, spuriousLeft, histVars>>

Apop(h) ==
  /\ hPc[h] = "none"
  /\ apopLeft > 0
  /\ apopLeft' = apopLeft - 1
  /\ hPc' = [hPc EXCEPT ![h] = "created"]
  /\ UNCHANGED <<buffer, lock, hNode, woken, extraPollLeft, pushVars,
                 popVars, helpVars, probeVars, spuriousLeft, histVars>>

\* The owner of a handle that has not completed discards it
Handle_discard(h) ==
  /\ hPc[h] \in {"created", "pending"}
  /\ hPc' = [hPc EXCEPT ![h] = "dropped"]
  /\ UNCHANGED <<buffer, lock, hNode, woken, apopLeft, extraPollLeft,
                 pushVars, popVars, helpVars, probeVars, spuriousLeft,
                 histVars>>

\* ------------------------------------------------------- PopFuture::poll
\* The scheduler polls a new handle, a pending handle whose waker was
\* called, or (a bounded number of times) a pending handle for no reason.
\* let mut q = self.q.lock().unwrap()
Poll_lock(h) ==
  /\ \/ hPc[h] = "created" /\ UNCHANGED extraPollLeft
     \/ hPc[h] = "pending" /\ woken[h] /\ UNCHANGED extraPollLeft
     \/ /\ hPc[h] = "pending" /\ ~woken[h]
        /\ extraPollLeft > 0
        /\ extraPollLeft' = extraPollLeft - 1
  /\ lock = Free
  /\ lock' = PollId(h)
  /\ woken' = [woken EXCEPT ![h] = FALSE]
  /\ hPc' = [hPc EXCEPT ![h] = "pop_front"]
  /\ UNCHANGED <<buffer, hNode, apopLeft, pushVars, popVars, helpVars,
                 probeVars, spuriousLeft, histVars>>

\* a slip: the None arm returns Pending without spawning the helper thread
Poll_pop_front_no_spawn(h) ==
  /\ hPc[h] = "pop_front"
  /\ IF pop_front_is_some(buffer)
       THEN /\ hNode' = [hNode EXCEPT ![h] = pop_front_node(buffer)]
            /\ buffer' = pop_front_rest(buffer)
            /\ popped' = Append(popped, <<PollId(h), pop_front_node(buffer)>>)
            /\ hPc' = [hPc EXCEPT ![h] = "done"]
            /\ lock' = Free
       ELSE /\ hPc' = [hPc EXCEPT ![h] = "drop"]
            /\ UNCHANGED <<buffer, hNode, popped, lock>>
  /\ UNCHANGED <<woken, apopLeft, extraPollLeft, pushVars, popVars, helpVars,
                 probeVars, spuriousLeft, pushed>>

\* a slip: the None arm drops the guard before it spawns the helper thread
Poll_pop_front_release_first(h) ==
  /\ hPc[h] = "pop_front"
  /\ IF pop_front_is_some(buffer)
       THEN /\ hNode' = [hNode EXCEPT ![h] = pop_front_node(buffer)]
            /\ buffer' = pop_front_rest(buffer)
            /\ popped' = Append(popped, <<PollId(h), pop_front_node(buffer)>>)
            /\ hPc' = [hPc EXCEPT ![h] = "done"]
            /\ UNCHANGED helpVars
       ELSE /\ \E k \in Helpers : helpPc[k] = "none"
            /\ helpPc' = [helpPc EXCEPT ![FreeSlot] = "lock"]
            /\ helpOwner' = [helpOwner EXCEPT ![FreeSlot] = h]
            /\ hPc' = [hPc EXCEPT ![h] = "drop"]
            /\ UNCHANGED <<buffer, hNode, popped>>
  /\ lock' = Free
  /\ UNCHANGED <<woken, apopLeft, extraPollLeft, pushVars, popVars,
                 probeVars, spuriousLeft, pushed>>

\* match q.pop_front(): Some(node) => Poll::Ready(node), and the guard q is
\*   dropped on return;  None => clone the waker and the two Arcs and
\*   thread::spawn the closure, with the guard q still held
Poll_pop_front(h) ==
  /\ hPc[h] = "pop_front"
  /\ IF pop_front_is_some(buffer)
       THEN /\ hNode' = [hNode EXCEPT ![h] = pop_front_node(buffer)]
            /\ buffer' = pop_front_rest(buffer)
            /\ popped' = Append(popped, <<PollId(h), pop_front_node(buffer)>>)
            /\ hPc' = [hPc EXCEPT ![h] = "done"]
            /\ lock' = Free
            /\ UNCHANGED helpVars
       ELSE /\ \E k \in Helpers : helpPc[k] = "none"
            /\ helpPc' = [helpPc EXCEPT ![FreeSlot] = "lock"]
            /\ helpOwner' = [helpOwner EXCEPT ![FreeSlot] = h]
            /\ hPc' = [hPc EXCEPT ![h] = "drop"]
            /\ UNCHANGED <<buffer, hNode, popped, lock>>
  /\ UNCHANGED <<woken, apopLeft, extraPollLeft, pushVars, popVars,
                 probeVars, spuriousLeft, pushed>>

\* a slip: poll joins the helper thread before it drops its guard
Poll_pending_after_join(h) ==
  /\ hPc[h] = "drop"
  /\ \A k \in Helpers : helpPc[k] = "none" \/ helpOwner[k] # h
  /\ lock' = Free
  /\ hPc' = [hPc EXCEPT ![h] = "pending"]
  /\ UNCHANGED <<buffer, hNode, woken, apopLeft, extraPollLeft, pushVars,
                 popVars, helpVars, probeVars, spuriousLeft, histVars>>

\* drop(q); Poll::Pending
Poll_pending(h) ==
  /\ hPc[h] = "drop"
  /\ lock' = Free
  /\ hPc' = [hPc EXCEPT ![h] = "pending"]
  /\ UNCHANGED <<buffer, hNode, woken, apopLeft, extraPollLeft, pushVars,
                 popVars, helpVars, probeVars, spuriousLeft, histVars>>

\* ------------------------------------- the closure run by the helper thread
\* let mut iq = qc.lock().unwrap()
Helper_lock(k) ==
  /\ helpPc[k] = "lock"
  /\ lock = Free
  /\ lock' = HelperId(k)
  /\ helpPc' = [helpPc EXCEPT ![k] = "check"]
  /\ UNCHANGED <<buffer, helpOwner, pushVars, popVars, pollVars, probeVars,
                 spuriousLeft, histVars>>

\* a slip: the helper thread takes the item it found for its handle
Helper_check_dequeue(k) ==
  /\ helpPc[k] = "check"
  /\ IF is_empty(buffer)
       THEN /\ helpPc' = [helpPc EXCEPT ![k] = "waiting"]
            /\ UNCHANGED buffer
       ELSE /\ helpPc' = [helpPc EXCEPT ![k] = "wake"]
            /\ buffer' = pop_front_rest(buffer)
  /\ lock' = Free
  /\ UNCHANGED <<helpOwner, pushVars, popVars, pollVars, probeVars,
                 spuriousLeft, histVars>>

\* while iq.is_empty() { iq = signal.wait(iq).unwrap() }  drop(iq)
Helper_check(k) ==
  /\ helpPc[k] = "check"
  /\ helpPc' = [helpPc EXCEPT ![k] =
                  IF is_empty(buffer) THEN "waiting" ELSE "wake"]
  /\ lock' = Free
  /\ UNCHANGED <<buffer, helpOwner, pushVars, popVars, pollVars, probeVars,
                 spuriousLeft, histVars>>

\* a slip: the helper thread goes on after wait without the Mutex
Helper_wait_return_no_relock(k) ==
  /\ helpPc[k] = "woken"
  /\ helpPc' = [helpPc EXCEPT ![k] = "check"]
  /\ UNCHANGED <<buffer, lock, helpOwner, pushVars, popVars, pollVars,
                 probeVars, spuriousLeft, histVars>>

\* wait returns with the Mutex re-acquired; the loop condition runs again
Helper_wait_return(k) ==
  /\ helpPc[k] = "woken"
  /\ lock = Free
  /\ lock' = HelperId(k)
  /\ helpPc' = [helpPc EXCEPT ![k] = "check"]
  /\ UNCHANGED <<buffer, helpOwner, pushVars, popVars, pollVars, probeVars,
                 spuriousLeft, histVars>>

\* a slip: the closure ends without calling the waker
Helper_end_without_wake(k) ==
  /\ helpPc[k] = "wake"
  /\ helpPc' = [helpPc EXCEPT ![k] = "none"]
  /\ helpOwner' = [helpOwner EXCEPT ![k] = 0]
  /\ UNCHANGED <<buffer, lock, pollVars, pushVars, popVars, probeVars,
                 spuriousLeft, histVars>>

\* a slip: the closure skips the waker when the item it saw is gone again
Helper_wake_unless_stale(k) ==
  /\ helpPc[k] = "wake"
  /\ woken' = [woken EXCEPT ![helpOwner[k]] =
                 IF buffer = <<>> THEN @ ELSE TRUE]
  /\ helpPc' = [helpPc EXCEPT ![k] = "none"]
  /\ helpOwner' = [helpOwner EXCEPT ![k] = 0]
  /\ UNCHANGED <<buffer, lock, hPc, hNode, apopLeft, extraPollLeft,
                 pushVars, popVars, probeVars, spuriousLeft, histVars>>

\* waker.wake(), called whatever has become of the handle: the call is
\* recorded also for a handle that has completed or was discarded, where
\* no poll will answer it.  The closure ends and the thread terminates.
Helper_wake(k) ==
  /\ helpPc[k] = "wake"
  /\ woken' = [woken EXCEPT ![helpOwner[k]] = TRUE]
  /\ helpPc' = [helpPc EXCEPT ![k] = "none"]
  /\ helpOwner' = [helpOwner EXCEPT ![k] = 0]
  /\ UNCHANGED <<buffer, lock, hPc, hNode, apopLeft, extraPollLeft,
                 pushVars, popVars, probeVars, spuriousLeft, histVars>>

\* ------------------------------------------------- Condvar spurious wake-up
Spurious(w) ==
  /\ spuriousLeft > 0
  /\ w \in Waiters
  /\ spuriousLeft' = spuriousLeft - 1
  /\ Unblock({w})
  /\ UNCHANGED <<buffer, lock, pushVars, popNode, popLeft, pollVars,
                 helpOwner, probeVars, histVars>>

\* ----------------------------------------------------------------- Next
PushStep(p) == Push_lock(p) \/ Push_push_back(p) \/ Push_notify_one(p)

PopStep(c) == Pop_lock(c) \/ Pop_pop_front(c) \/ Pop_wait_return(c)

PollStep(h) == Poll_lock(h) \/ Poll_pop_front(h) \/ Poll_pending(h)

HelperStep(k) ==
  \/ Helper_lock(k) \/ Helper_check(k) \/ Helper_wait_return(k)
  \/ Helper_wake(k)

ProbeStep == Probe_lock \/ Probe_is_empty

PushNext == \E p \in Pushers : PushStep(p)
PopNext == \E c \in Poppers : PopStep(c)
HandleNext == \E h \in Handles : Apop(h) \/ PollStep(h)
DiscardNext == \E h \in Handles : Handle_discard(h)
HelperNext == \E k \in Helpers : HelperStep(k)
SpuriousNext == \E w \in Waiters : Spurious(w)

Next ==
  \/ PushNext \/ PopNext \/ HandleNext \/ DiscardNext \/ HelperNext
  \/ ProbeStep \/ SpuriousNext

Spec == Init /\ [][Next]_vars

\* ------------------------------------------------------------- fairness
\* The operating system runs every thread that can take a step, and the
\* scheduler polls a handle whose waker was called.  Nothing obliges the
\* environment to call push, pop, was_empty or apop, to poll a handle whose
\* waker was not called, or the Condvar to wake anybody spuriously.
Repoll(h) == woken[h] /\ Poll_lock(h)

Fairness ==
  /\ \A p \in Pushers : WF_vars(Push_push_back(p) \/ Push_notify_one(p))
  /\ \A c \in Poppers : WF_vars(Pop_pop_front(c) \/ Pop_wait_return(c))
  /\ \A h \in Handles :
       WF_vars(Repoll(h) \/ Poll_pop_front(h) \/ Poll_pending(h))
  /\ \A k \in Helpers : WF_vars(HelperStep(k))
  /\ WF_vars(Probe_is_empty)

FairSpec == Spec /\ Fairness

\* ------------------------------------------------------------ scenarios
\* One pop and one push, by two threads, with was_empty calls and spurious
\* wake-ups around them; no handle is created.
InitHandoff == InitWith(1, 1, 0, 0, MaxSpurious, MaxProbe)
NextHandoff == PushNext \/ PopNext \/ ProbeStep \/ SpuriousNext
SpecHandoff == InitHandoff /\ [][NextHandoff]_vars /\ Fairness

\* One handle and one push; nobody calls pop, the handle is not discarded.
InitAsync == InitWith(1, 0, 1, MaxExtraPoll, MaxSpurious, 0)
NextAsync == PushNext \/ HandleNext \/ HelperNext \/ SpuriousNext
SpecAsync == InitAsync /\ [][NextAsync]_vars /\ Fairness

\* One pop per popper thread and one push; no handle, no spurious wake-up.
InitFanout == InitWith(1, NumPoppers, 0, 0, 0, MaxProbe)
NextFanout == PushNext \/ PopNext \/ ProbeStep
SpecFanout == InitFanout /\ [][NextFanout]_vars /\ Fairness

\* ======================================================= properties
\* The items of a removal history, in order
ItemsOf(h) == [i \in 1..Len(h) |-> h[i][2]]
\* The consumers: threads in pop, and handles
Consumers == {PopId(c) : c \in Poppers} \cup {PollId(h) : h \in Handles}
\* Consumer w has returned to its caller with a value
Returned(w) == IF w[1] = "pop" THEN popPc[w[2]] = "done"
                               ELSE hPc[w[2]] = "done"
\* The value consumer w returned
ReturnedNode(w) == IF w[1] = "pop" THEN popNode[w[2]] ELSE hNode[w[2]]
\* The removals made by consumer w, as indices of popped
RemovalsBy(w) == {i \in 1..Len(popped) : popped[i][1] = w}
\* The latest removal made by consumer w
LastRemovalBy(w) ==
  CHOOSE i \in RemovalsBy(w) : \A j \in RemovalsBy(w) : j <= i

\* C1: FIFO delivery.  Items leave the buffer in the order in which they
\* were appended: the i-th removal, by pop or by poll, takes the i-th item
\* appended, so no item is removed before one appended earlier; and a
\* consumer that has returned holds the item of its own latest removal,
\* which was the head of the buffer when it was removed.
C1_FifoDelivery ==
  /\ Len(popped) <= Len(pushed)
  /\ \A i \in 1..Len(popped) : popped[i][2] = pushed[i]
  /\ \A w \in Consumers :
       Returned(w) =>
         /\ RemovalsBy(w) # {}
         /\ ReturnedNode(w) = pushed[LastRemovalBy(w)]

\* Two items were appended and both removed, the first by a poll that
\* returned Ready and the second by a blocking pop.
C1_Witness ==
  /\ Len(popped) = 2
  /\ popped[1][1][1] = "poll"
  /\ popped[2][1][1] = "pop"
  /\ Returned(popped[1][1])
  /\ Returned(popped[2][1])

\* C2: conservation.  The items appended are exactly the items removed
\* followed by the items still buffered; no item is removed twice; every
\* removed item was removed by one consumer, which returns it and nothing
\* else; once the buffer is empty as many items were removed as appended.
C2_Conservation ==
  /\ pushed = ItemsOf(popped) \o buffer
  /\ \A i, j \in 1..Len(popped) : popped[i][2] = popped[j][2] => i = j
  /\ \A w \in Consumers :
       Returned(w) =>
         \E i \in RemovalsBy(w) : popped[i][2] = ReturnedNode(w)
  /\ \A v, w \in Consumers :
       (Returned(v) /\ Returned(w) /\ ReturnedNode(v) = ReturnedNode(w))
         => v = w
  /\ buffer = <<>> => Len(popped) = Len(pushed)

\* Pops and a poll have drained a buffer that held two items, while a
\* helper thread and a blocked pop are still around.
C2_Witness ==
  /\ Len(pushed) = 2
  /\ buffer = <<>>
  /\ \E i \in 1..2 : popped[i][1][1] = "poll"
  /\ \E i \in 1..2 : popped[i][1][1] = "pop"
  /\ \E c \in Poppers : popPc[c] = "waiting"

\* A consumer is blocked on the signal: a thread inside pop, or a helper
\* thread of a handle that is pending
BlockedConsumer ==
  \/ \E c \in Poppers : popPc[c] = "waiting"
  \/ \E k \in Helpers :
       helpPc[k] = "waiting" /\ hPc[helpOwner[k]] = "pending"

\* C3: eventual delivery.  Under fair scheduling the system does not stay
\* forever in a state where the buffer is non-empty while a pop caller or
\* a pending handle's helper thread is blocked on the signal, also when
\* helper threads of completed or discarded handles wait on that signal.
C3_EventualDelivery == []<>~(buffer # <<>> /\ BlockedConsumer)

\* Some push has appended item x and popper c has returned it
PopReturned(c, x) == popPc[c] = "done" /\ popNode[c] = x /\ x \in 1..Len(pushed)

\* C4: cross-thread handoff.  With one pop and one push of an item x by two
\* threads, in any interleaving, once both calls are made the pop
\* eventually returns x; the notification is never lost.
C4_Handoff ==
  (popLeft = 0 /\ pushLeft = 0) ~> (\E c \in Poppers : PopReturned(c, 1))

\* The pop returned the pushed item with no spurious wake-up to help it.
C4_Witness ==
  /\ \E c \in Poppers : PopReturned(c, 1)
  /\ spuriousLeft = MaxSpurious

\* C5: async resolution.  A poll that finds the buffer empty returns
\* Pending; once the single push is made, a pending handle (the only
\* consumer) eventually has its waker called if nothing else polls it, and
\* it eventually completes with Ready(x), x the pushed item.
C5_AsyncResolution ==
  /\ [][\A h \in Handles :
          (hPc[h] = "pop_front" /\ buffer = <<>> /\ hPc'[h] # "pop_front")
            => hPc'[h] = "drop"]_vars
  /\ [][\A h \in Handles : hPc[h] = "drop" => hPc'[h] \in {"drop", "pending"}]_vars
  /\ \A h \in Handles :
       (hPc[h] = "pending" /\ pushLeft = 0 /\ extraPollLeft = 0 /\ ~woken[h])
         ~> woken[h]
  /\ \A h \in Handles :
       (hPc[h] = "pending" /\ pushLeft = 0)
         ~> (hPc[h] = "done" /\ hNode[h] = 1 /\ pushed = <<1>>)

\* The push ran between poll's release of the Mutex and the helper
\* thread's first acquisition of it: the helper has yet to lock, the handle
\* is pending, the item is buffered and the notification is already spent.
C5_Witness ==
  \E k \in Helpers :
    /\ helpPc[k] = "lock"
    /\ hPc[helpOwner[k]] = "pending"
    /\ buffer = <<1>>
    /\ \A p \in Pushers : pushPc[p] = "idle"
    /\ extraPollLeft = MaxExtraPoll
    /\ spuriousLeft = MaxSpurious

\* Every popper is blocked on the signal
AllBlocked == \A c \in Poppers : popPc[c] = "waiting"
\* One popper has returned the pushed item and all the others are blocked
OneServed ==
  /\ pushLeft = 0 /\ \A p \in Pushers : pushPc[p] = "idle"
  /\ \E c \in Poppers :
       /\ PopReturned(c, 1)
       /\ \A d \in Poppers \ {c} : popPc[d] = "waiting"

\* C6: single-notify fan-out.  No step unblocks more than one waiter; a
\* notification issued while all N poppers are blocked unblocks exactly
\* one of them; that push leads to exactly one popper returning the item
\* while the other N-1 are blocked, and they stay blocked.
C6_FanOut ==
  /\ [][Cardinality(Waiters \ Waiters') <= 1]_vars
  /\ [][(AllBlocked /\ \E p \in Pushers :
                         pushPc[p] = "notify" /\ pushPc'[p] = "idle")
          => Cardinality(Waiters') = NumPoppers - 1]_vars
  /\ (AllBlocked /\ pushLeft = 0) ~> OneServed
  /\ [][(OneServed /\ popLeft = 0) => OneServed']_vars
  /\ [](Len(popped) <= 1)

\* All N poppers were blocked when the notification came: one has been
\* unblocked, the others are still waiting, the item is in the buffer.
C6_Witness ==
  /\ buffer = <<1>>
  /\ \E c \in Poppers :
       /\ popPc[c] = "woken"
       /\ \A d \in Poppers \ {c} : popPc[d] = "waiting"

\* C7: emptiness probe.  was_empty returns true exactly when the buffer is
\* empty at the moment it holds the Mutex, that is, when as many items
\* were removed as appended up to then (true on a new queue, false after
\* one push, true again once the pushed items were removed by pop or by a
\* poll); no step of was_empty changes the buffer or unblocks a waiter.
C7_EmptinessProbe ==
  /\ []((probePc = "idle" /\ probeLeft < MaxProbe)
          => (probeRes <=> probeAt[1] = probeAt[2]))
  /\ [][(probePc = "is_empty" /\ probePc' = "idle")
          => probeRes' = (buffer = <<>>)]_vars
  /\ [][probePc' # probePc
          => (buffer' = buffer /\ popPc' = popPc /\ helpPc' = helpPc)]_vars

\* was_empty returned true after two items were appended and then removed,
\* one by a poll and one by a pop.
C7_Witness ==
  /\ probePc = "idle" /\ probeLeft < MaxProbe
  /\ probeRes
  /\ probeAt = <<2, 2>>
  /\ \E i \in 1..2 : popped[i][1][1] = "poll"
  /\ \E i \in 1..2 : popped[i][1][1] = "pop"

\* C8: push effect.  A push that holds the Mutex completes by its own
\* steps alone, blocked on nothing; it appends exactly its item at the
\* tail and leaves the items already buffered as they were; its other
\* steps leave the buffer alone; it issues the notification only after it
\* has released the Mutex, and the notification unblocks at most one of
\* the threads waiting on the signal, a pop or a helper thread.
C8_PushEffect ==
  /\ [][\A p \in Pushers :
          (pushPc[p] = "push_back" /\ pushPc'[p] # "push_back")
            => /\ pushPc'[p] = "notify"
               /\ Len(buffer') = Len(buffer) + 1
               /\ SubSeq(buffer', 1, Len(buffer)) = buffer
               /\ buffer'[Len(buffer')] = pushItem[p]]_vars
  /\ [][\A p \in Pushers :
          (pushPc[p] # "push_back" /\ pushPc'[p] # pushPc[p])
            => buffer' = buffer]_vars
  /\ [](\A p \in Pushers : pushPc[p] = "notify" => lock # PushId(p))
  /\ [][\A p \in Pushers :
          (pushPc[p] = "notify" /\ pushPc'[p] # "notify")
            => Cardinality(Waiters \ Waiters') <= 1]_vars
  /\ [](\A p \in Pushers :
          pushPc[p] # "idle"
            => ENABLED (Push_push_back(p) \/ Push_notify_one(p)))

\* A pusher has appended item 2 behind item 1 and is about to notify, at
\* a time when nobody waits on the signal.
C8_Witness ==
  /\ buffer = <<1, 2>>
  /\ \E p \in Pushers : pushPc[p] = "notify" /\ pushItem[p] = 2
  /\ Waiters = {}

\* C9: blocking pop re-check.  A pop that has returned returns an item that
\* was pushed and that this pop removed; holding the Mutex, pop either
\* finds the buffer empty and goes (back) to waiting on the signal, or
\* removes the head and returns it; a woken pop re-acquires the Mutex and
\* examines the buffer again rather than returning.
C9_PopRecheck ==
  /\ [](\A c \in Poppers :
          popPc[c] = "done"
            => /\ popNode[c] \in 1..Len(pushed)
               /\ \E i \in RemovalsBy(PopId(c)) : popped[i][2] = popNode[c])
  /\ [][\A c \in Poppers :
          (popPc[c] = "pop_front" /\ popPc'[c] # "pop_front")
            => /\ lock = PopId(c)
               /\ IF buffer = <<>>
                    THEN popPc'[c] = "waiting" /\ buffer' = buffer
                    ELSE /\ popPc'[c] = "done"
                         /\ popNode'[c] = Head(buffer)
                         /\ buffer' = Tail(buffer)]_vars
  /\ [][\A c \in Poppers :
          (popPc[c] = "woken" /\ popPc'[c] # "woken")
            => popPc'[c] = "pop_front" /\ lock' = PopId(c)]_vars

\* A pop was unblocked by a notification (no spurious wake-up happened),
\* but another consumer has already emptied the buffer.
C9_Witness ==
  /\ \E c \in Poppers : popPc[c] = "woken"
  /\ buffer = <<>>
  /\ Len(popped) > 0
  /\ spuriousLeft = MaxSpurious

\* The helper threads that exist after a step and did not before it
Spawned == {k \in Helpers : helpPc[k] = "none" /\ helpPc'[k] # "none"}

\* C10: poll step.  A poll that holds the Mutex finishes by its own steps,
\* blocked on nothing.  If the buffer is non-empty it removes exactly the
\* head, returns Ready with it and starts no helper; if the buffer is empty
\* it leaves the buffer as it is, starts exactly one helper thread, which
\* carries this handle's waker, and returns Pending.
C10_PollStep ==
  /\ [][\A h \in Handles :
          (hPc[h] = "pop_front" /\ hPc'[h] # "pop_front")
            => IF buffer # <<>>
                 THEN /\ hPc'[h] = "done"
                      /\ hNode'[h] = Head(buffer)
                      /\ buffer' = Tail(buffer)
                      /\ Spawned = {}
                 ELSE /\ hPc'[h] = "drop"
                      /\ buffer' = buffer
                      /\ Cardinality(Spawned) = 1
                      /\ \A k \in Spawned :
                           helpPc'[k] = "lock" /\ helpOwner'[k] = h]_vars
  /\ [][\A h \in Handles :
          (hPc[h] = "drop" /\ hPc'[h] # "drop")
            => hPc'[h] = "pending" /\ buffer' = buffer /\ Spawned = {}]_vars
  /\ [](\A h \in Handles :
          hPc[h] \in {"pop_front", "drop"}
            => ENABLED (Poll_pop_front(h) \/ Poll_pending(h)))

\* A handle has completed with Ready while a helper thread started by an
\* earlier poll of it, which found the buffer empty, is still alive.
C10_Witness ==
  \E h \in Handles :
    /\ hPc[h] = "done" /\ hNode[h] # 0
    /\ \E k \in Helpers : helpOwner[k] = h /\ helpPc[k] # "none"

\* C11: the helper thread is a wake hint only.  No step that moves a helper
\* thread changes the buffer; a helper gets to call the waker only from
\* its check of the buffer, made holding the Mutex and finding the buffer
\* non-empty, and it has released the Mutex by then; a handle's waker is
\* called only by a helper thread of that handle, which calls it once and
\* terminates with that call.
C11_WakeHintOnly ==
  /\ [][helpPc' # helpPc
          => (buffer' = buffer /\ pushed' = pushed /\ popped' = popped)]_vars
  /\ [][\A k \in Helpers :
          (helpPc[k] # "wake" /\ helpPc'[k] = "wake")
            => /\ helpPc[k] = "check"
               /\ lock = HelperId(k)
               /\ buffer # <<>>
               /\ lock' = Free]_vars
  /\ [](\A k \in Helpers : helpPc[k] = "wake" => lock # HelperId(k))
  /\ [][\A k \in Helpers :
          (helpPc[k] = "wake" /\ helpPc'[k] # "wake")
            => /\ helpPc'[k] = "none"
               /\ woken'[helpOwner[k]]]_vars
  /\ [][\A h \in Handles :
          (~woken[h] /\ woken'[h])
            => \E k \in Helpers :
                 /\ helpPc[k] = "wake" /\ helpOwner[k] = h
                 /\ helpPc'[k] = "none"]_vars

\* A helper thread has called the waker of its pending handle and has
\* terminated; the item it saw is still in the buffer.
C11_Witness ==
  /\ buffer # <<>>
  /\ \A k \in Helpers : helpPc[k] = "none"
  /\ \E h \in Handles : hPc[h] = "pending" /\ woken[h]

\* C12: helper threads are released by the next push.  A helper thread
\* that is blocked on the signal when an item has been pushed (the buffer
\* is non-empty) eventually leaves the signal, calls its waker and
\* terminates, with no further push needed.
C12_ReleasedByNextPush ==
  \A k \in Helpers :
    (helpPc[k] = "waiting" /\ buffer # <<>>) ~> (helpPc[k] = "none")

\* The helper threads a handle has spawned that have not yet terminated
HelpersOf(h) == {k \in Helpers : helpPc[k] # "none" /\ helpOwner[k] = h}

\* C13: stale wake-ups are tolerated and the handle stays armed.  A poll
\* that finds the buffer empty, whether or not the waker was called before
\* it, takes no item and returns Pending; and every handle whose last poll
\* returned Pending has a helper thread of its own that has not yet
\* terminated, or a wake-up that was called and not yet answered by a poll.
C13_StaysArmed ==
  /\ [](\A h \in Handles :
          hPc[h] \in {"drop", "pending"} => (woken[h] \/ HelpersOf(h) # {}))
  /\ [][\A h \in Handles :
          (hPc[h] = "pop_front" /\ buffer = <<>> /\ hPc'[h] # hPc[h])
            => /\ hPc'[h] = "drop"
               /\ hNode' = hNode /\ popped' = popped
               /\ HelpersOf(h)' # {}]_vars
  /\ [][\A h \in Handles :
          (hPc[h] = "drop" /\ hPc'[h] # hPc[h])
            => /\ hPc'[h] = "pending"
               /\ hNode' = hNode /\ popped' = popped]_vars

\* the waker of a pending handle was called, but a pop() took the item first:
\* the poll that answers this wake-up finds the buffer empty
C13_Witness ==
  \E h \in Handles :
    /\ hPc[h] = "pending" /\ woken[h]
    /\ HelpersOf(h) = {}
    /\ buffer = <<>> /\ lock = Free
    /\ popped # <<>>
    /\ \A i \in 1..Len(popped) : popped[i][1] \in {PopId(c) : c \in Poppers}

\* The parties whose position is between acquiring a MutexGuard and
\* dropping it (or handing it to Condvar::wait)
Holders ==
  {PushId(p) : p \in {x \in Pushers : pushPc[x] = "push_back"}}
    \cup {PopId(c) : c \in {x \in Poppers : popPc[x] = "pop_front"}}
    \cup {PollId(h) : h \in {x \in Handles : hPc[x] \in {"pop_front", "drop"}}}
    \cup {HelperId(k) : k \in {x \in Helpers : helpPc[x] = "check"}}
    \cup (IF probePc = "is_empty" THEN {ProbeId} ELSE {})

\* The parties that wait returned to and that have yet to get the Mutex back
Unblocked ==
  {PopId(c) : c \in {x \in Poppers : popPc[x] = "woken"}}
    \cup {HelperId(k) : k \in {x \in Helpers : helpPc[x] = "woken"}}

\* C14: mutual exclusion.  At most one party is inside a section guarded
\* by the Mutex, and it is the party recorded as the owner; the buffer is
\* changed, and was_empty's answer is read, only by the owner; a party
\* blocked on the Condvar, or woken and not yet running, does not own the
\* Mutex, and a woken party owns it when it examines the buffer again.
C14_MutualExclusion ==
  /\ [](Cardinality(Holders) <= 1)
  /\ [](Holders = IF lock = Free THEN {} ELSE {lock})
  /\ [](\A w \in Waiters \cup Unblocked : lock # w /\ w \notin Holders)
  /\ [][(buffer' # buffer \/ popped' # popped \/ probeAt' # probeAt)
          => lock # Free /\ Holders = {lock}]_vars
  /\ [][pushed' # pushed => lock \in {PushId(p) : p \in Pushers}]_vars
  /\ [][popped' # popped => popped'[Len(popped')][1] = lock]_vars
  /\ [][\A w \in Unblocked : w \notin Unblocked'
          => lock = Free /\ lock' = w /\ buffer' = buffer]_vars

\* a pusher is inside its guarded section while a pop() and a helper
\* thread, both woken, are waiting to get the Mutex back
C14_Witness ==
  /\ lock \in {PushId(p) : p \in Pushers}
  /\ \E c \in Poppers : popPc[c] = "woken"
  /\ \E k \in Helpers : helpPc[k] = "woken"

\* A call of pop() by thread c is in progress
InPop(c) == popPc[c] \in {"pop_front", "waiting", "woken"}

\* C15: pop() blocks for as long as nothing is pushed.  While a call of
\* pop() is in progress and the buffer is empty, every step other than a
\* push's push_back (a spurious wake-up, a notification, another
\* consumer, a helper thread, the thread's own re-check) leaves the call in
\* progress and the buffer empty; and a call returns only with the item it
\* removed from the front of the buffer.
C15_BlocksWithoutPush ==
  /\ [][\A c \in Poppers :
          (InPop(c) /\ buffer = <<>> /\ pushed' = pushed)
            => (InPop(c)' /\ buffer' = <<>>)]_vars
  /\ [][\A c \in Poppers :
          (InPop(c) /\ ~InPop(c)')
            => /\ buffer # <<>>
               /\ popPc'[c] = "done"
               /\ popNode'[c] = Head(buffer)
               /\ popped' = Append(popped, <<PopId(c), Head(buffer)>>)]_vars

\* nothing was ever pushed; the only thread that has acted called pop(),
\* blocked, was woken spuriously, found the buffer empty and blocked again
C15_Witness ==
  /\ pushed = <<>> /\ \A p \in Pushers : pushPc[p] = "idle"
  /\ spuriousLeft < MaxSpurious
  /\ \A h \in Handles : hPc[h] = "none"
  /\ \E c \in Poppers :
       /\ popPc[c] = "waiting"
       /\ \A d \in Poppers \ {c} : popPc[d] = "idle"

\* C16: apop() has no side effect.  The step that creates a handle changes
\* nothing but the handle: not the Mutex, the buffer, any thread's
\* position, any helper thread or any wake-up.  A handle that has not been
\* polled owns no helper thread (so no notify_one can go to it), does not
\* hold the Mutex, has no wake-up and has removed nothing: every removal so
\* far was made by another consumer.
C16_ApopNoSideEffect ==
  /\ [][\A h \in Handles :
          (hPc[h] = "none" /\ hPc'[h] # "none")
            => /\ hPc'[h] = "created"
               /\ UNCHANGED <<buffer, lock, hNode, woken, pushVars, popVars,
                              helpVars, probeVars, histVars>>]_vars
  /\ [](\A h \in Handles :
          hPc[h] \in {"none", "created"}
            => /\ HelpersOf(h) = {}
               /\ lock # PollId(h)
               /\ ~woken[h] /\ hNode[h] = 0
               /\ \A i \in 1..Len(popped) : popped[i][1] # PollId(h))

\* a handle exists and was never polled; every item pushed has been
\* delivered to a pop()
C16_Witness ==
  \E h \in Handles :
    /\ hPc[h] = "created"
    /\ pushed # <<>> /\ Len(popped) = Len(pushed)
    /\ buffer = <<>>
    /\ \A i \in 1..Len(popped) : popped[i][1] \in {PopId(c) : c \in Poppers}

\* The step the owner of the Mutex takes next
HolderStep ==
  \/ \E p \in Pushers : lock = PushId(p) /\ Push_push_back(p)
  \/ \E c \in Poppers : lock = PopId(c) /\ Pop_pop_front(c)
  \/ \E h \in Handles : lock = PollId(h) /\ (Poll_pop_front(h) \/ Poll_pending(h))
  \/ \E k \in Helpers : lock = HelperId(k) /\ Helper_check(k)
  \/ lock = ProbeId /\ Probe_is_empty

\* The parties that have asked for the Mutex and do not own it yet
Acquiring ==
  Unblocked \cup {HelperId(k) : k \in {x \in Helpers : helpPc[x] = "lock"}}

\* The steps by which a party in Acquiring gets the Mutex
AcquireStep ==
  \/ \E c \in Poppers : Pop_wait_return(c)
  \/ \E k \in Helpers : Helper_lock(k) \/ Helper_wait_return(k)

\* C17: no deadlock on the Mutex.  The Mutex is acquired only when free,
\* and never by a party that is already inside a guarded section.  The
\* owner can always take its next step, whatever the others do, and that
\* step gives the Mutex up, except that a poll that found the buffer
\* empty keeps it for the one step that spawns the helper thread and gives
\* it up in the next, without waiting for the helper.  Whenever the Mutex
\* is free, each party that has asked for it can take it.  So a party that
\* cannot step is blocked on the Condvar.
C17_NoDeadlock ==
  /\ [][(lock' # lock /\ lock' # Free)
          => (lock = Free /\ lock' \notin Holders)]_vars
  /\ [](lock # Free => ENABLED HolderStep)
  /\ [][(lock # Free /\ HolderStep)
          => \/ lock' = Free
             \/ \E h \in Handles :
                  /\ lock = PollId(h) /\ lock' = lock
                  /\ hPc[h] = "pop_front" /\ hPc'[h] = "drop"]_vars
  /\ [](\A h \in Handles : hPc[h] = "drop" => ENABLED Poll_pending(h))
  /\ []((lock = Free /\ Acquiring # {}) => ENABLED AcquireStep)
  /\ [](\A c \in Poppers : (lock = Free /\ popPc[c] = "woken")
                              => ENABLED Pop_wait_return(c))
  /\ [](\A k \in Helpers : (lock = Free /\ helpPc[k] = "lock")
                              => ENABLED Helper_lock(k))
  /\ [](\A k \in Helpers : (lock = Free /\ helpPc[k] = "woken")
                              => ENABLED Helper_wait_return(k))

\* poll has spawned the helper thread and still holds the Mutex that the
\* helper thread is asking for
C17_Witness ==
  \E h \in Handles : \E k \in Helpers :
    /\ hPc[h] = "drop" /\ lock = PollId(h)
    /\ helpPc[k] = "lock" /\ helpOwner[k] = h

\* C18, as the claim states it: the helper thread is never started while
\* the polling context holds the Mutex.
C18_SpawnAfterRelease ==
  [][Spawned # {} => \A h \in Handles : lock # PollId(h)]_vars

\* C18, as the code has it: a poll that finds the buffer empty starts
\* exactly one helper thread, for its own handle, while it holds the Mutex
\* and keeps holding it; the step after that drops the guard and returns
\* Pending.  Until then the helper thread it started has not got past
\* asking for the Mutex, so it examines the buffer only after the release.
C18_SpawnUnderLock ==
  /\ [][Spawned # {}
          => \E h \in Handles :
               /\ hPc[h] = "pop_front" /\ hPc'[h] = "drop"
               /\ buffer = <<>> /\ buffer' = buffer
               /\ lock = PollId(h) /\ lock' = PollId(h)
               /\ Cardinality(Spawned) = 1
               /\ \A k \in Spawned :
                    helpPc'[k] = "lock" /\ helpOwner'[k] = h]_vars
  /\ [][\A h \in Handles :
          (hPc[h] = "pop_front" /\ hPc'[h] = "drop") => Spawned # {}]_vars
  /\ [][\A h \in Handles :
          (hPc[h] = "drop" /\ hPc'[h] # "drop")
            => /\ hPc'[h] = "pending"
               /\ lock = PollId(h) /\ lock' = Free
               /\ helpPc' = helpPc]_vars
  /\ [](\A h \in Handles :
          hPc[h] = "drop"
            => /\ \E k \in HelpersOf(h) : helpPc[k] = "lock"
               /\ \A k \in Helpers : helpPc[k] # "check")

\* the poll has returned Pending to a thread that is the only consumer, and
\* the helper thread it started under the Mutex now owns the Mutex
C18_Witness ==
  \E h \in Handles : \E k \in Helpers :
    /\ hPc[h] = "pending" /\ ~woken[h]
    /\ helpOwner[k] = h /\ helpPc[k] = "check" /\ lock = HelperId(k)
    /\ buffer = <<>> /\ pushed = <<>>
    /\ extraPollLeft = MaxExtraPoll

====
